---------------------------- MODULE Spec2Model ----------------------------
(***************************************************************************)
(* A model of the Bay County court-portal scraper                          *)
(* (src/USA/FL/Bay/Court/scraper/Scraper.py and utils/ScraperUtils.py).    *)
(*                                                                         *)
(* The program is sequential.  begin_scrape is modelled by the variable pc *)
(* and its locals; the functions it calls (search_portal, load_page,       *)
(* select_case_input, scrape_record) run as frames of an explicit call     *)
(* stack, so that search_portal's self-recursion is modelled as the code   *)
(* performs it.  The portal, the browser and the captcha service are the   *)
(* environment: every answer they can give is a nondeterministic choice.   *)
(* Case numbers and CSV fields are sequences of one-character strings, so  *)
(* that formatting, slicing and int() are computed as Python computes them.*)
(***************************************************************************)
EXTENDS Integers, Sequences, FiniteSets, TLC

(***************************************************************************)
(* Bounds of the model.                                                    *)
(***************************************************************************)
\* How many of the candidates begin_scrape enumerates in one run exist in
\* the portal (are answered with a case page or a listing of several cases).
MaxFound == 1
\* How many irregular events (page not loaded, wait timed out, captcha
\* rejected, input not interactable, service error, case without charges)
\* the environment may inject in one run.
MaxFaults == 2
\* The largest match count a results-listing page reports.
MaxCount == 2
\* The largest number of charges on a case page (write_csv writes one row
\* per charge).
MaxCharges == 1
\* How many times the process may be killed and restarted (SpecKill).
MaxKills == 1
\* In how many flags (or the prior output) a run may differ from DefaultRun.
MaxVaried == 1

(***************************************************************************)
(* Strings: a string is a sequence of one-character strings.               *)
(***************************************************************************)
Digits == <<"0", "1", "2", "3", "4", "5", "6", "7", "8", "9">>

DigitChar(d) == Digits[d + 1]

IsDigit(c) == \E d \in 0..9 : Digits[d + 1] = c

DigitVal(c) == CHOOSE d \in 0..9 : Digits[d + 1] = c

RECURSIVE DecDigits(_)
\* str(n) for n >= 0
DecDigits(n) ==
  IF n < 10 THEN <<DigitChar(n)>>
  ELSE DecDigits(n \div 10) \o <<DigitChar(n % 10)>>

RECURSIVE Zeros(_)
Zeros(k) == IF k <= 0 THEN <<>> ELSE <<"0">> \o Zeros(k - 1)

\* f'{n:0w}': at least w characters, zero-padded on the left, never cut.
Pad(n, w) == LET d == DecDigits(n) IN Zeros(w - Len(d)) \o d

\* Scraper.py:149  case_number = f'{YY:02}' + f'{N:06}'
FormatCase(yy, n) == Pad(yy, 2) \o Pad(n, 6)

\* str.isnumeric(): non-empty and every character numeric
IsNumeric(s) == Len(s) > 0 /\ \A k \in 1..Len(s) : IsDigit(s[k])

RECURSIVE DigitsValue(_)
DigitsValue(s) ==
  IF Len(s) = 0 THEN 0
  ELSE 10 * DigitsValue(SubSeq(s, 1, Len(s) - 1)) + DigitVal(s[Len(s)])

\* int(s) succeeds on these strings exactly when s is a non-empty digit string
IntOk(s) == IsNumeric(s)

IntOf(s) == DigitsValue(s)

\* Python slices s[:k], s[-k:], s[:-k] (clamped, never raising)
Prefix(s, k) == SubSeq(s, 1, IF k < Len(s) THEN k ELSE Len(s))

Suffix(s, k) == SubSeq(s, (IF Len(s) - k + 1 > 1 THEN Len(s) - k + 1 ELSE 1), Len(s))

DropLast(s, k) == SubSeq(s, 1, IF Len(s) - k > 0 THEN Len(s) - k ELSE 0)


(***************************************************************************)
(* Inputs: the flags of a run and the output file a run may find.           *)
(***************************************************************************)
\* --start_year / --end_year (Scraper.py:43-44)
StartYears == {2019, 2020}

EndYears == {2021}

\* --missing_thresh (Scraper.py:51), 2..MaxThresh
MaxThresh == 3

\* --connect_thresh (Scraper.py:52), 1..MaxConnect
MaxConnect == 2

\* The four-letter court-type suffixes the portal appends to a case number
\* in a results listing (the texts get_associated_cases collects).
CourtTypes == << <<"C", "F", "M", "A">>, <<"M", "M", "M", "A">>, <<"C", "T", "M", "A">> >>

\* The PortalID field of the heading row write_csv writes.
HeaderField == <<"P", "o", "r", "t", "a", "l", "I", "D">>

NoFile == [exists |-> FALSE, rows |-> <<>>]

File(rows) == [exists |-> TRUE, rows |-> rows]

\* The PortalID fields of the last data row of a prior output.
PriorIds ==
  { FormatCase(21, 1), FormatCase(21, 2), FormatCase(20, 1), FormatCase(19, 1),
    FormatCase(21, 1) \o CourtTypes[1], FormatCase(21, 999999) }

\* Output files that cannot be decoded: an empty file (no last line), and a
\* file holding the heading row only (write_csv's first call for a record
\* without charges leaves it).
BrokenOutputs == { File(<<>>), File(<<HeaderField>>) }

\* The output file found at startup: none, a heading and data rows, or a
\* file that cannot be decoded.
PriorOutputs ==
  {NoFile} \cup { File(<<HeaderField, id>>) : id \in PriorIds } \cup BrokenOutputs

(***************************************************************************)
(* State.                                                                  *)
(***************************************************************************)
VARIABLES
  \* FLAGS
  start_year, end_year, missing_thresh, connect_thresh, solve_captchas,
  \* files: FLAGS.output (the PortalID field of each row) and the ledger
  output, ledger_open,
  \* begin_scrape: position and locals
  pc, years, year, YY, N, record_missing_count, cases_scraped_since_reset,
  continuing, last_case, case_number, search_result, todo, case,
  \* frames of the functions begin_scrape calls, and the last return value
  stack, ret,
  \* the browser: the page shown, and whether the session holds cookies
  page, cookies,
  \* running | done | fatal (RuntimeError) | exit (exit(1)) | error
  status,
  \* what the environment may still do
  found, faults, kills,
  \* history of the run
  cfg_end_year, prior, scanned, log, sunk, policy_clears, restarts, lost,
  unsaved, relooked,
  \* whether the condition awaited by the wait loop in progress has held
  held,
  \* what the search_portal call in progress has done about the captcha,
  \* from its probe to its submission
  events

flagVars == <<start_year, end_year, missing_thresh, connect_thresh, solve_captchas>>

fileVars == <<output, ledger_open>>

loopVars == <<years, year, YY, N, record_missing_count, cases_scraped_since_reset,
              continuing, last_case>>

iterVars == <<case_number, search_result, todo, case>>

driverVars == <<page, cookies>>

envVars == <<found, faults, kills>>

runVars == <<cfg_end_year, prior, scanned, log, sunk, policy_clears, restarts, lost,
            unsaved, relooked>>

histVars == <<runVars, held, events>>

vars == <<flagVars, fileVars, pc, loopVars, iterVars, stack, ret, driverVars,
          status, envVars, histVars>>

\* A value of search_portal: None, or a set of case numbers.
None == [none |-> TRUE, set |-> {}]

SetOf(s) == [none |-> FALSE, set |-> s]

\* Python truthiness of a search_portal value (Scraper.py:156)
Truthy(r) == ~r.none /\ r.set # {}

BlankPage == [kind |-> "blank", case |-> <<>>, count |-> 0, rows |-> {}, captcha |-> FALSE]

\* A frame: the function, its position, its loop index i, the case number
\* it was called with (arg) and, for load_page, the expected title (exp).
Frame(fn, at, arg) == [fn |-> fn, pc |-> at, i |-> 0, arg |-> arg, exp |-> ""]

LoadFrame(exp) == [fn |-> "load_page", pc |-> "get", i |-> 0, arg |-> <<>>, exp |-> exp]

\* range(a, b, -1) as a sequence
RECURSIVE RangeDown(_, _)
RangeDown(a, b) == IF a <= b THEN <<>> ELSE <<a>> \o RangeDown(a - 1, b)

\* The state of a process that has just started, given its flags and files.
Fresh ==
  /\ pc = "start"
  /\ years = <<>> /\ year = 0 /\ YY = 0 /\ N = 0
  /\ record_missing_count = 0 /\ cases_scraped_since_reset = 0
  /\ continuing = FALSE /\ last_case = 0
  /\ case_number = <<>> /\ search_result = None /\ todo = {} /\ case = <<>>
  /\ stack = <<>> /\ ret = None
  /\ page = BlankPage /\ cookies = FALSE
  /\ status = "running"
  /\ ledger_open = FALSE

\* The run the others are variations of: two years to scan, no prior output.
DefaultRun ==
  [start_year |-> 2019, end_year |-> 2021, missing_thresh |-> 2,
   connect_thresh |-> 2, solve_captchas |-> TRUE, output |-> NoFile]

Runs ==
  [start_year : StartYears, end_year : EndYears, missing_thresh : 2..MaxThresh,
   connect_thresh : 1..MaxConnect, solve_captchas : BOOLEAN, output : PriorOutputs]

Varied(r) == Cardinality({ f \in DOMAIN r : r[f] # DefaultRun[f] })

Init ==
  /\ \E r \in Runs :
       /\ Varied(r) <= MaxVaried
       /\ start_year = r.start_year
       /\ end_year = r.end_year
       /\ missing_thresh = r.missing_thresh
       /\ connect_thresh = r.connect_thresh
       /\ solve_captchas = r.solve_captchas
       /\ output = r.output
  /\ Fresh
  /\ found = MaxFound /\ faults = MaxFaults /\ kills = 0
  /\ cfg_end_year = end_year /\ prior = output
  /\ scanned = <<>> /\ log = <<>> /\ sunk = <<>> /\ policy_clears = <<>>
  /\ restarts = 0 /\ lost = {} /\ unsaved = {} /\ relooked = {}
  /\ held = FALSE
  /\ events = <<>>

Running == status = "running"

InBegin == Running /\ stack = <<>>

\* A faulty variant of Raise in which the exception is swallowed and the
\* run goes on; C15 tells it apart.
Raise_Swallowed(k) == status' = status

\* An uncaught exception of kind k ends the run.
Raise(k) == status' = k

(***************************************************************************)
(* begin_scrape (Scraper.py:99-192).                                       *)
(***************************************************************************)
\* ScraperUtils.get_last_csv_row(...).split(',')[3]: the PortalID field of
\* the last line of the file (the file is known to exist and have a line).
LastField(f) == f.rows[Len(f.rows)]

\* Scraper.py:118  last_year = 2000 + int(str(last_case_number)[:2])
LastYear(field) == 2000 + IntOf(Prefix(field, 2))

\* A faulty variant of Stripped that strips every number, numeric or not; C22
\* tells it apart.
Stripped_Always(field) == DropLast(field, 4)

\* Scraper.py:119-120  strip the last 4 characters of a non-numeric number
Stripped(field) == IF ~IsNumeric(field) THEN DropLast(field, 4) ELSE field

\* A faulty variant of LastCase that reads five characters; C13 tells it
\* apart.
LastCase_FiveDigits(field) == IntOf(Suffix(Stripped(field), 5))

\* Scraper.py:121  last_case = int(str(last_case_number)[-6:])
LastCase(field) == IntOf(Suffix(Stripped(field), 6))

\* Whether lines 116-121 run without raising on an existing file.
RecoverOk(f) ==
  /\ Len(f.rows) > 0
  /\ IntOk(Prefix(LastField(f), 2))
  /\ IntOk(Suffix(Stripped(LastField(f)), 6))

\* A faulty variant of NoPriorOutput that also takes an undecodable file for
\* no prior output; C12 tells it apart.
NoPriorOutput_AnyFailure(f) == ~f.exists \/ ~RecoverOk(f)

\* Scraper.py:124  `except FileNotFoundError': the one failure that is caught
NoPriorOutput(f) == ~f.exists

\* A faulty variant of ScanYears that includes startYear; C5 tells it apart.
ScanYears_Inclusive(endy, starty) == RangeDown(endy, starty - 1)

\* Scraper.py:130  the years the for loop visits
ScanYears(endy, starty) == RangeDown(endy, starty)

\* A faulty variant of ResumeEnd that keeps a newer configured end year; C30
\* tells it apart.
ResumeEnd_KeepNewer(cfg, lasty) == IF cfg > lasty THEN cfg ELSE lasty

\* Scraper.py:122  FLAGS.end_year = last_year
ResumeEnd(cfg, lasty) == lasty

\* Scraper.py:104-130: open the ledger, recover the checkpoint, fix the
\* range of years.  FileNotFoundError is the only exception caught.
Recover ==
  /\ InBegin /\ pc = "start"
  /\ ledger_open' = TRUE
  /\ IF NoPriorOutput(output)
       THEN /\ continuing' = FALSE
            /\ years' = ScanYears(end_year, start_year)
            /\ pc' = "for_year"
            /\ UNCHANGED <<end_year, last_case, status>>
       ELSE IF RecoverOk(output)
         THEN /\ end_year' = ResumeEnd(end_year, LastYear(LastField(output)))
              /\ last_case' = LastCase(LastField(output))
              /\ continuing' = TRUE
              /\ years' = ScanYears(end_year', start_year)
              /\ pc' = "for_year"
              /\ UNCHANGED status
         ELSE /\ Raise("error")
              /\ UNCHANGED <<end_year, last_case, continuing, years, pc>>
  /\ UNCHANGED <<start_year, missing_thresh, connect_thresh, solve_captchas, output,
                 year, YY, N, record_missing_count, cases_scraped_since_reset,
                 iterVars, stack, ret, driverVars, envVars, histVars>>

\* A faulty variant of FirstN that resumes after the checkpoint in every
\* year; C1 tells it apart.
FirstN_EveryYear(cont, lastc) == lastc + 1

\* Scraper.py:131-134  the first sequence number of a year
FirstN(cont, lastc) == IF cont THEN lastc + 1 ELSE 1

\* Scraper.py:130-144: the next year of the for loop, or the end of it.
ForYear ==
  /\ InBegin /\ pc = "for_year"
  /\ IF years = <<>>
       THEN /\ pc' = "close"
            /\ UNCHANGED <<years, year, YY, N, record_missing_count,
                           cases_scraped_since_reset, scanned>>
       ELSE /\ year' = Head(years)
            /\ years' = Tail(years)
            /\ N' = FirstN(continuing, last_case)
            /\ YY' = year' % 100
            /\ record_missing_count' = 0
            /\ cases_scraped_since_reset' = 0
            /\ scanned' = Append(scanned, [year |-> year', N |-> N'])
            /\ pc' = "while"
  /\ UNCHANGED <<flagVars, fileVars, continuing, last_case, iterVars, stack, ret,
                 driverVars, status, envVars, cfg_end_year, prior, log, sunk,
                 policy_clears, restarts, lost, unsaved, held, events, relooked>>

\* A faulty variant of KeepScanning that allows one more miss; C4 tells it
\* apart.
KeepScanning_OneMore(missing, thresh) == missing <= thresh

\* Scraper.py:147  the while condition
KeepScanning(missing, thresh) == missing < thresh

\* Scraper.py:147-153 and 188: generate the candidate and search it, or
\* leave the year.
While ==
  /\ InBegin /\ pc = "while"
  /\ IF KeepScanning(record_missing_count, missing_thresh)
       THEN /\ case_number' = FormatCase(YY, N)
            /\ stack' = <<Frame("search_portal", "load", case_number')>>
            /\ restarts' = 0
            /\ relooked' = relooked \cup {case_number'}
            /\ pc' = "after_search"
            /\ UNCHANGED continuing
       ELSE /\ continuing' = FALSE
            /\ pc' = "for_year"
            /\ UNCHANGED <<case_number, stack, restarts, relooked>>
  /\ UNCHANGED <<flagVars, fileVars, years, year, YY, N, record_missing_count,
                 cases_scraped_since_reset, last_case, search_result, todo, case,
                 ret, driverVars, status, envVars, cfg_end_year, prior, scanned, log,
                 sunk, policy_clears, lost, unsaved, held, events>>

\* Scraper.py:160  more than one case in the result
IsFanOut(r) == Cardinality(r.set) > 1

\* The match count of a listing of several cases (0 for any other page).
Reported(p) == IF p.kind = "Results" /\ p.count > 1 THEN p.count ELSE 0

\* Scraper.py:153-173: count the lookup, then branch on the result.
AfterSearch ==
  /\ InBegin /\ pc = "after_search"
  /\ search_result' = ret
  /\ cases_scraped_since_reset' = cases_scraped_since_reset + 1
  /\ log' = Append(log, [case |-> case_number, res |-> ret, page |-> page.kind,
                         count |-> Reported(page), at |-> Len(sunk)])
  /\ IF Truthy(ret)
       THEN /\ record_missing_count' = 0
            /\ IF IsFanOut(ret)
                 THEN /\ todo' = ret.set
                      /\ pc' = "for_case"
                      /\ UNCHANGED stack
                 ELSE /\ stack' = <<Frame("scrape_record", "summary", case_number)>>
                      /\ pc' = "iter_end"
                      /\ UNCHANGED todo
       ELSE /\ record_missing_count' = record_missing_count + 1
            /\ pc' = "iter_end"
            /\ UNCHANGED <<todo, stack>>
  /\ UNCHANGED <<flagVars, fileVars, years, year, YY, N, continuing, last_case,
                 case_number, case, ret, driverVars, status, envVars,
                 cfg_end_year, prior, scanned, sunk, policy_clears, restarts, lost,
                 unsaved, held, events, relooked>>

\* Scraper.py:161-163: the next member of the set (a Python set iterates in
\* an arbitrary order), searched again on its own.
ForCase ==
  /\ InBegin /\ pc = "for_case"
  /\ IF todo = {}
       THEN /\ pc' = "iter_end"
            /\ UNCHANGED <<todo, case, stack, restarts, relooked>>
       ELSE \E c \in todo :
            /\ case' = c
            /\ todo' = todo \ {c}
            /\ stack' = <<Frame("search_portal", "load", c)>>
            /\ restarts' = 0
            /\ relooked' = relooked \cup {c}
            /\ pc' = "after_member"
  /\ UNCHANGED <<flagVars, fileVars, loopVars, case_number, search_result, ret,
                 driverVars, status, envVars, cfg_end_year, prior, scanned, log, sunk,
                 policy_clears, lost, unsaved, held, events>>

\* A faulty variant of MemberTarget that scrapes under the candidate's
\* number; C9 tells it apart.
MemberTarget_Candidate(member, candidate) == candidate

\* Scraper.py:166  scrape_record(case): the member, not the candidate
MemberTarget(member, candidate) == member

\* A faulty variant of ResetDue that waits for more than five lookups; C25
\* tells it apart.
ResetDue_Late(n) == n > 5

\* Scraper.py:181  the session-reset policy
ResetDue(n) == n >= 5

\* A faulty variant of AfterMember that applies the session-reset policy to
\* each member as soon as it is counted, before it is scraped; C26 tells it
\* apart.
AfterMember_ResetPerMember ==
  /\ InBegin /\ pc = "after_member"
  /\ IF ResetDue(cases_scraped_since_reset + 1)
       THEN cookies' = FALSE /\ cases_scraped_since_reset' = 0
       ELSE /\ cases_scraped_since_reset' = cases_scraped_since_reset + 1
            /\ UNCHANGED cookies
  /\ stack' = <<Frame("scrape_record", "summary", MemberTarget(case, case_number))>>
  /\ pc' = "for_case"
  /\ UNCHANGED <<flagVars, fileVars, years, year, YY, N, record_missing_count,
                 continuing, last_case, iterVars, ret, page, status,
                 envVars, histVars>>

\* Scraper.py:163-166: the member's search result is dropped; the member is
\* counted and scraped whatever the search returned.
AfterMember ==
  /\ InBegin /\ pc = "after_member"
  /\ cases_scraped_since_reset' = cases_scraped_since_reset + 1
  /\ stack' = <<Frame("scrape_record", "summary", MemberTarget(case, case_number))>>
  /\ pc' = "for_case"
  /\ UNCHANGED <<flagVars, fileVars, years, year, YY, N, record_missing_count,
                 continuing, last_case, iterVars, ret, driverVars, status,
                 envVars, histVars>>

\* A faulty variant of NextN that steps over a sequence number; C28 tells it
\* apart.
NextN_Skip(n) == n + 2

\* Scraper.py:186  N += 1
NextN(n) == n + 1

\* Scraper.py:175-186: flush the ledger, apply the session-reset policy,
\* advance the sequence number.
IterEnd ==
  /\ InBegin /\ pc = "iter_end"
  /\ IF ResetDue(cases_scraped_since_reset)
       THEN /\ cookies' = FALSE
            /\ cases_scraped_since_reset' = 0
            /\ policy_clears' = Append(policy_clears, Len(sunk))
       ELSE UNCHANGED <<cookies, cases_scraped_since_reset, policy_clears>>
  /\ N' = NextN(N)
  /\ pc' = "while"
  /\ UNCHANGED <<flagVars, fileVars, years, year, YY, record_missing_count,
                 continuing, last_case, iterVars, stack, ret, page, status,
                 envVars, cfg_end_year, prior, scanned, log, sunk, restarts, lost,
                 unsaved, held, events, relooked>>

\* Scraper.py:192: every year is done; close the ledger.
Close ==
  /\ InBegin /\ pc = "close"
  /\ ledger_open' = FALSE
  /\ status' = "done"
  /\ UNCHANGED <<flagVars, output, pc, loopVars, iterVars, stack, ret, driverVars,
                 envVars, histVars>>

(***************************************************************************)
(* The call stack.                                                         *)
(***************************************************************************)
Top == stack[Len(stack)]

In(fn, at) == Running /\ stack # <<>> /\ Top.fn = fn /\ Top.pc = at

\* The stack with its top frame replaced by f
WithTop(f) == [stack EXCEPT ![Len(stack)] = f]

\* The stack after the top frame returns
Popped == SubSeq(stack, 1, Len(stack) - 1)

(***************************************************************************)
(* The environment: what the portal shows.                                 *)
(***************************************************************************)
\* The search page, with or without a captcha widget.
SearchPage(captcha) ==
  [kind |-> "Search", case |-> <<>>, count |-> 0, rows |-> {}, captcha |-> captcha]

\* A page whose title matches nothing that is waited for (not loaded, or an
\* error page).
OtherPage == [kind |-> "Other", case |-> <<>>, count |-> 0, rows |-> {}, captcha |-> FALSE]

PartyPage == [kind |-> "Party", case |-> <<>>, count |-> 0, rows |-> {}, captcha |-> FALSE]

\* The page of one case: its title contains the case number.
CasePage(c) == [kind |-> "Case", case |-> c, count |-> 0, rows |-> {}, captcha |-> FALSE]

\* A results listing: 'CASES FOUND' count, and the distinct texts of its
\* 'sorting_1' cells (read only when count > 1).
ResultsPage(count, rows) ==
  [kind |-> "Results", case |-> <<>>, count |-> count, rows |-> rows, captcha |-> FALSE]

\* The first 8 characters of a case number: year and sequence.
BaseNumber(c) == Prefix(c, 8)

\* The case numbers a listing for c may show: c's number with a court type.
Listed(c, k) == { BaseNumber(c) \o CourtTypes[j] : j \in 1..k }

\* The listings the portal may answer with: count matches shown in at most
\* count distinct texts.
Listings(c) ==
  { ResultsPage(0, {}), ResultsPage(1, {}) } \cup
  { ResultsPage(n, Listed(c, k)) : n \in 2..MaxCount, k \in 1..Len(CourtTypes) }

\* The case number that follows a numeric case number c in the enumeration.
Successor(c) == FormatCase(IntOf(Prefix(c, 2)), IntOf(SubSeq(c, 3, Len(c))) + 1)

\* A listing for c among whose texts is the number that follows c: the cells
\* get_associated_cases reads hold whatever case numbers the portal
\* associates with c.
CrossListing(c) == ResultsPage(2, {BaseNumber(c) \o CourtTypes[1], Successor(c)})

\* The portal has shown the page of case c in this run, so the case exists.
Known(c) == \E k \in 1..Len(sunk) : sunk[k] = c

IsFoundPage(p) == p.kind = "Case" \/ (p.kind = "Results" /\ p.count > 1)

IsFaultPage(p) == p.kind \in {"Search", "Other"}

\* The search in progress is for a candidate of the enumeration (not for a
\* member of an associated-case set).
OfCandidate == pc = "after_search"

\* The pages the portal may show after the search for c is submitted, given
\* what the environment may still do: a found page for a candidate uses up
\* one of `found' (unless the case is known to exist), an unchanged search
\* page (captcha rejected, or the page is slow) or an unexpected page one of
\* `faults'.
Answers(c) ==
  { p \in Listings(c) : Cardinality(p.rows) <= p.count /\
                         (IsFoundPage(p) /\ OfCandidate => found > 0) }
  \cup (IF OfCandidate /\ found > 0 /\ IsNumeric(c) THEN {CrossListing(c)} ELSE {})
  \cup (IF OfCandidate => (found > 0 \/ Known(c)) THEN {CasePage(c)} ELSE {})
  \cup (IF faults > 0 THEN {SearchPage(TRUE), OtherPage} ELSE {})

\* The portal answers the submitted search for c with page p.
Submit(c, p) ==
  /\ p \in Answers(c)
  /\ page' = p
  /\ found' = IF IsFoundPage(p) /\ OfCandidate /\ ~(p = CasePage(c) /\ Known(c))
               THEN found - 1 ELSE found
  /\ faults' = IF IsFaultPage(p) THEN faults - 1 ELSE faults

\* EC.title_contains(expected) in load_page
TitleContains(p, exp) ==
  \/ exp = "Search" /\ p.kind \in {"Search", "Results"}
  \/ exp = "Party" /\ p.kind = "Party"

\* The pages driver.get may leave for a URL whose title is expected to
\* contain exp: the page, or a page that has not loaded.
Loaded(exp) ==
  (IF exp = "Search" THEN {SearchPage(TRUE), SearchPage(FALSE)} ELSE {PartyPage})
  \cup (IF faults > 0 THEN {OtherPage} ELSE {})

\* driver.get(url)
Get(exp, p) ==
  /\ p \in Loaded(exp)
  /\ page' = p
  /\ cookies' = TRUE
  /\ faults' = IF p.kind = "Other" THEN faults - 1 ELSE faults

(***************************************************************************)
(* load_page (Scraper.py:531-559).                                         *)
(***************************************************************************)
\* A faulty variant of LastAttempt that allows one more attempt; C11 tells
\* it apart.
LastAttempt_OneMore(i, thresh) == i = thresh

\* Scraper.py:551  the attempt that exhausts the budget
LastAttempt(i, thresh) == i = thresh - 1

\* The driver.get calls a load_page frame waiting for the title has made:
\* Scraper.py:539 once, and Scraper.py:556 in each round i that was retried.
LoadAttempts(f) == f.i + 1

\* Scraper.py:539  driver.get(url)
LoadPage_Get ==
  /\ In("load_page", "get")
  /\ \E p \in Loaded(Top.exp) : Get(Top.exp, p)
  /\ stack' = WithTop([Top EXCEPT !.pc = "wait", !.i = 0])
  /\ UNCHANGED <<flagVars, fileVars, pc, loopVars, iterVars, ret, status, found,
                 kills, histVars>>

\* Scraper.py:540-556: one attempt of the wait for the title.
LoadPage_Wait ==
  /\ In("load_page", "wait")
  /\ IF TitleContains(page, Top.exp)
       THEN /\ stack' = Popped
            /\ UNCHANGED <<driverVars, faults, status>>
       ELSE IF LastAttempt(Top.i, connect_thresh)
         THEN /\ Raise("fatal")
              /\ UNCHANGED <<stack, driverVars, faults>>
         ELSE /\ \E p \in Loaded(Top.exp) : Get(Top.exp, p)
              /\ stack' = WithTop([Top EXCEPT !.i = Top.i + 1])
              /\ UNCHANGED status
  /\ UNCHANGED <<flagVars, fileVars, pc, loopVars, iterVars, ret, found, kills,
                 histVars>>

(***************************************************************************)
(* select_case_input (Scraper.py:501-528).                                 *)
(***************************************************************************)
\* Scraper.py:506-513: one attempt of the wait for the case selector.  The
\* loop has no break: a successful wait goes on to the next attempt.
SelectCaseInput_Wait ==
  /\ In("select_case_input", "wait")
  /\ IF Top.i >= connect_thresh
       THEN /\ stack' = WithTop([Top EXCEPT !.pc = "click"])
            /\ held' = FALSE
            /\ UNCHANGED <<faults, status>>
       ELSE \/ /\ stack' = WithTop([Top EXCEPT !.i = Top.i + 1])
               /\ held' = TRUE
               /\ UNCHANGED <<faults, status>>
            \/ /\ faults > 0
               /\ faults' = faults - 1
               /\ IF LastAttempt(Top.i, connect_thresh)
                    THEN Raise("fatal") /\ UNCHANGED stack
                    ELSE /\ stack' = Append(WithTop([Top EXCEPT !.i = Top.i + 1]),
                                            LoadFrame("Search"))
                         /\ UNCHANGED status
               /\ UNCHANGED held
  /\ UNCHANGED <<flagVars, fileVars, pc, loopVars, iterVars, ret, driverVars, found,
                 kills, runVars, events>>

\* Scraper.py:515-528: click the selector and the input.  When the input is
\* not interactable, line 523 calls name_selector.cick(), which no element
\* has: AttributeError.
SelectCaseInput_Click ==
  /\ In("select_case_input", "click")
  /\ \/ /\ stack' = Popped
        /\ UNCHANGED <<faults, status>>
     \/ /\ faults > 0
        /\ faults' = faults - 1
        /\ Raise("error")
        /\ UNCHANGED stack
  /\ UNCHANGED <<flagVars, fileVars, pc, loopVars, iterVars, ret, driverVars, found,
                 kills, histVars>>

(***************************************************************************)
(* search_portal (Scraper.py:384-498).                                     *)
(***************************************************************************)
\* Scraper.py:392-393  load_page(search_page, 'Search')
SearchPortal_Load ==
  /\ In("search_portal", "load")
  /\ stack' = Append(WithTop([Top EXCEPT !.pc = "select"]), LoadFrame("Search"))
  /\ UNCHANGED <<flagVars, fileVars, pc, loopVars, iterVars, ret, driverVars,
                 status, envVars, histVars>>

\* Scraper.py:398  select_case_input()
SearchPortal_Select ==
  /\ In("search_portal", "select")
  /\ stack' = Append(WithTop([Top EXCEPT !.pc = "input"]),
                     Frame("select_case_input", "wait", <<>>))
  /\ UNCHANGED <<flagVars, fileVars, pc, loopVars, iterVars, ret, driverVars,
                 status, envVars, histVars>>

\* A faulty variant of CaptchaFound that takes every search page to carry the
\* widget; C21 tells it apart.
CaptchaFound_Always(p) == TRUE

\* Scraper.py:408  find_element_by_class_name('g-recaptcha') finds the widget;
\* NoSuchElementException (line 450) is the branch without one
CaptchaFound(p) == p.captcha

\* Scraper.py:399-412 and 450-454: type the case number and probe for the
\* captcha widget; without one the search is submitted at once.
SearchPortal_Input ==
  /\ In("search_portal", "input")
  /\ IF CaptchaFound(page)
       THEN /\ stack' = WithTop([Top EXCEPT !.pc =
                                  IF solve_captchas THEN "solve" ELSE "manual"])
            /\ events' = <<IF page.captcha THEN "present" ELSE "absent">>
            /\ UNCHANGED <<page, found, faults>>
       ELSE /\ \E p \in Answers(Top.arg) : Submit(Top.arg, p)
            /\ stack' = WithTop([Top EXCEPT !.pc = "eval", !.i = 0])
            /\ events' = <<IF page.captcha THEN "present" ELSE "absent", "submit">>
  /\ UNCHANGED <<flagVars, fileVars, pc, loopVars, iterVars, ret, cookies, status,
                 kills, runVars, held>>

\* Scraper.py:416-434: one call of the solving service; its failure is
\* exit(1), its token is injected and the search submitted.
SearchPortal_Solve ==
  /\ In("search_portal", "solve")
  /\ \/ /\ \E p \in Answers(Top.arg) : Submit(Top.arg, p)
        /\ stack' = WithTop([Top EXCEPT !.pc = "eval", !.i = 0])
        /\ events' = events \o <<"solve", "inject", "submit">>
        /\ UNCHANGED status
     \/ /\ faults > 0
        /\ faults' = faults - 1
        /\ Raise("exit")
        /\ events' = Append(events, "solve")
        /\ UNCHANGED <<stack, page, found>>
  /\ UNCHANGED <<flagVars, fileVars, pc, loopVars, iterVars, ret, cookies, kills,
                 runVars, held>>

\* Scraper.py:441  the manual wait's condition
TitleHasCase(p, c) == p.kind = "Case" /\ p.case = c

\* Scraper.py:441 and 478: whether the title of the answer may contain the
\* case number.  The title of a single-case page does; the title of a
\* results listing begins 'Search Results: CaseNumber:' and the code does
\* not fix what follows, so both are possible.
ManualWaitEnds(p, c) ==
  IF p.kind = "Results" THEN BOOLEAN ELSE {TitleHasCase(p, c)}

\* Scraper.py:436-448: the operator solves the captcha and submits; the
\* wait ends only when the title contains the case number, and a timed-out
\* wait is started again.
SearchPortal_Manual ==
  /\ In("search_portal", "manual")
  /\ page.kind = "Search"
  /\ \E p \in Answers(Top.arg) :
       /\ Submit(Top.arg, p)
       /\ \E ends \in ManualWaitEnds(p, Top.arg) :
            stack' = WithTop([Top EXCEPT !.pc = IF ends THEN "eval" ELSE "manual",
                                         !.i = IF ends THEN 0 ELSE Top.i])
  /\ events' = Append(events, "operator")
  /\ UNCHANGED <<flagVars, fileVars, pc, loopVars, iterVars, ret, cookies, status,
                 kills, runVars, held>>

\* Scraper.py:438-448: the 6-hour WebDriverWait elapses without the case
\* number in the title; TimeoutException is caught, a line is logged and the
\* `while True' loop waits again (i counts the waits that have elapsed).
SearchPortal_ManualTimeout ==
  /\ In("search_portal", "manual")
  /\ ~TitleHasCase(page, Top.arg)
  /\ faults > 0
  /\ faults' = faults - 1
  /\ stack' = WithTop([Top EXCEPT !.i = Top.i + 1])
  /\ UNCHANGED <<flagVars, fileVars, pc, loopVars, iterVars, ret, driverVars, status,
                 found, kills, histVars>>

\* Scraper.py:463  the condition of the wait after submission
TitleSettled(p, c) == p.kind \in {"Search", "Results"} \/ TitleHasCase(p, c)

\* A faulty variant of ListingValue that needs more than two matches; C16
\* tells it apart.
ListingValue_MoreThanTwo(p) == IF p.count > 2 THEN SetOf(p.rows) ELSE SetOf({})

\* Scraper.py:482-488  the value returned for a results listing
ListingValue(p) == IF p.count > 1 THEN SetOf(p.rows) ELSE SetOf({})

\* Scraper.py:475-477 and 498: search_portal calls itself for the same case
\* number; the value the call returns is not used, and the loop goes on.
Restart ==
  /\ stack' = Append(WithTop([Top EXCEPT !.i = Top.i + 1]),
                     Frame("search_portal", "load", Top.arg))
  /\ restarts' = restarts + 1

\* Scraper.py:459-498: one round of the evaluation loop; after the last
\* round the function ends without a return statement (None).
SearchPortal_Eval ==
  /\ In("search_portal", "eval")
  /\ IF Top.i >= connect_thresh
       THEN /\ stack' = Popped
            /\ ret' = None
            /\ UNCHANGED <<cookies, restarts, status>>
       ELSE IF TitleSettled(page, Top.arg)
         THEN IF page.kind = "Search"
                THEN /\ cookies' = FALSE
                     /\ Restart
                     /\ UNCHANGED <<ret, status>>
                ELSE /\ stack' = Popped
                     /\ ret' = IF page.kind = "Results" THEN ListingValue(page)
                                                         ELSE SetOf({Top.arg})
                     /\ UNCHANGED <<cookies, restarts, status>>
         ELSE IF LastAttempt(Top.i, connect_thresh)
                THEN /\ Raise("fatal")
                     /\ UNCHANGED <<stack, ret, cookies, restarts>>
                ELSE /\ Restart
                     /\ UNCHANGED <<ret, cookies, status>>
  /\ UNCHANGED <<flagVars, fileVars, pc, loopVars, iterVars, page, envVars,
                 cfg_end_year, prior, scanned, log, sunk, policy_clears, lost, unsaved,
                 held, relooked>>
  /\ events' = <<>>

(***************************************************************************)
(* scrape_record (Scraper.py:195-382) and write_csv (ScraperUtils:141-221).*)
(***************************************************************************)
\* One attempt of a wait for an element of the case page (Scraper.py:201-208
\* and 216-223): the element exists on a case page only; a wait may time
\* out there too.  The loops have no break.
ElementWait(next) ==
  IF Top.i >= connect_thresh
    THEN /\ stack' = WithTop([Top EXCEPT !.pc = next, !.i = 0])
         /\ held' = FALSE
         /\ UNCHANGED <<faults, status>>
    ELSE \/ /\ page.kind = "Case"
            /\ stack' = WithTop([Top EXCEPT !.i = Top.i + 1])
            /\ held' = TRUE
            /\ UNCHANGED <<faults, status>>
         \/ /\ page.kind # "Case" \/ faults > 0
            /\ faults' = IF page.kind = "Case" THEN faults - 1 ELSE faults
            /\ IF LastAttempt(Top.i, connect_thresh)
                 THEN Raise("fatal") /\ UNCHANGED stack
                 ELSE /\ stack' = WithTop([Top EXCEPT !.i = Top.i + 1])
                      /\ UNCHANGED status
            /\ UNCHANGED held

\* Scraper.py:200-208  wait for the court summary
ScrapeRecord_Summary ==
  /\ In("scrape_record", "summary")
  /\ ElementWait("dockets")
  /\ UNCHANGED <<flagVars, fileVars, pc, loopVars, iterVars, ret, driverVars, found,
                 kills, runVars, events>>

\* Scraper.py:215-223  wait for the dockets
ScrapeRecord_Dockets ==
  /\ In("scrape_record", "dockets")
  /\ ElementWait("profile")
  /\ UNCHANGED <<flagVars, fileVars, pc, loopVars, iterVars, ret, driverVars, found,
                 kills, runVars, events>>

\* Scraper.py:359-363  load_page(profile_link, 'Party Details:')
ScrapeRecord_Profile ==
  /\ In("scrape_record", "profile")
  /\ stack' = Append(WithTop([Top EXCEPT !.pc = "write"]), LoadFrame("Party"))
  /\ UNCHANGED <<flagVars, fileVars, pc, loopVars, iterVars, ret, driverVars,
                 status, envVars, histVars>>

RECURSIVE Copies(_, _)
Copies(x, k) == IF k <= 0 THEN <<>> ELSE <<x>> \o Copies(x, k - 1)

\* ScraperUtils.py:187-221  write_csv: one row per charge of the record,
\* after the heading row when the file does not exist yet.
WriteCsv(f, id, charges) ==
  IF f.exists THEN File(f.rows \o Copies(id, charges))
              ELSE File(<<HeaderField>> \o Copies(id, charges))

\* Scraper.py:283-382: build the record (portal_id = case_number) and hand
\* it to write_csv.
ScrapeRecord_Write ==
  /\ In("scrape_record", "write")
  /\ \E charges \in 0..MaxCharges :
       /\ charges = 0 => faults > 0
       /\ faults' = IF charges = 0 THEN faults - 1 ELSE faults
       /\ output' = WriteCsv(output, Top.arg, charges)
  /\ sunk' = Append(sunk, Top.arg)
  /\ stack' = Popped
  /\ UNCHANGED <<flagVars, ledger_open, pc, loopVars, iterVars, ret, driverVars,
                 status, found, kills, cfg_end_year, prior, scanned, log,
                 policy_clears, restarts, lost, unsaved, held, events, relooked>>

(***************************************************************************)
(* The program.                                                            *)
(***************************************************************************)
Next ==
  \/ Recover \/ ForYear \/ While \/ AfterSearch \/ ForCase \/ AfterMember
  \/ IterEnd \/ Close
  \/ LoadPage_Get \/ LoadPage_Wait
  \/ SelectCaseInput_Wait \/ SelectCaseInput_Click
  \/ SearchPortal_Load \/ SearchPortal_Select \/ SearchPortal_Input
  \/ SearchPortal_Solve \/ SearchPortal_Manual \/ SearchPortal_ManualTimeout
  \/ SearchPortal_Eval
  \/ ScrapeRecord_Summary \/ ScrapeRecord_Dockets \/ ScrapeRecord_Profile
  \/ ScrapeRecord_Write

Spec == Init /\ [][Next]_vars

(***************************************************************************)
(* The process is killed and started again with the same flags; only the   *)
(* files survive.  The history variables start again with the new process, *)
(* except for what the kill left behind: the members of an associated-case *)
(* set, one of whose members is the last row of the output, that were      *)
(* neither persisted nor in flight (lost), and the cases resolved by the   *)
(* killed process that have no row in the output (unsaved).                *)
(***************************************************************************)
Rows(f) == { f.rows[k] : k \in 1..Len(f.rows) }

Kill ==
  /\ Running /\ pc # "start" /\ kills < MaxKills
  /\ kills' = kills + 1
  /\ end_year' = cfg_end_year
  /\ ledger_open' = FALSE
  /\ pc' = "start"
  /\ years' = <<>> /\ year' = 0 /\ YY' = 0 /\ N' = 0
  /\ record_missing_count' = 0 /\ cases_scraped_since_reset' = 0
  /\ continuing' = FALSE /\ last_case' = 0
  /\ case_number' = <<>> /\ search_result' = None /\ todo' = {} /\ case' = <<>>
  /\ stack' = <<>> /\ ret' = None
  /\ page' = BlankPage /\ cookies' = FALSE
  /\ prior' = output
  /\ lost' = IF pc \in {"for_case", "after_member"} /\
                 search_result.set \cap Rows(output) # {}
               THEN todo ELSE {}
  /\ unsaved' = { sunk[k] : k \in 1..Len(sunk) } \ Rows(output)
  /\ scanned' = <<>> /\ log' = <<>> /\ sunk' = <<>> /\ policy_clears' = <<>>
  /\ restarts' = 0 /\ relooked' = {} /\ held' = FALSE /\ events' = <<>>
  /\ UNCHANGED <<start_year, missing_thresh, connect_thresh, solve_captchas, output,
                 status, found, faults, cfg_end_year>>

SpecKill == Init /\ [][Next \/ Kill]_vars

\* The program keeps running: a step that can be taken is taken.  The
\* interpreter runs begin_scrape to its end unless a call blocks, and the
\* waits of the driver time out.
SpecFair == Spec /\ WF_vars(Next)

(***************************************************************************)
(* The case-number codec on its own: a (year, sequence) is formatted as    *)
(* begin_scrape formats a candidate (Scraper.py:137, 149) and the string   *)
(* is decoded as begin_scrape decodes the checkpoint (Scraper.py:118-121). *)
(***************************************************************************)
\* The years whose two-digit suffix plus 2000 is the year.
CodecYears == 2000..2099

\* Sequence numbers 0..999999: both ends and every change of length.
CodecSeqs ==
  {0, 1, 9, 10, 99, 100, 999, 1000, 9999, 10000, 99999, 100000, 999998, 999999}

CodecInit ==
  /\ start_year = 1999 /\ end_year = 2099 /\ missing_thresh = 2
  /\ connect_thresh = 1 /\ solve_captchas = TRUE
  /\ output = NoFile /\ ledger_open = FALSE
  /\ pc = "generate"
  /\ years = <<>> /\ year \in CodecYears /\ YY = 0 /\ N \in CodecSeqs
  /\ record_missing_count = 0 /\ cases_scraped_since_reset = 0
  /\ continuing = FALSE /\ last_case = 0
  /\ case_number = <<>> /\ search_result = None /\ todo = {} /\ case = <<>>
  /\ stack = <<>> /\ ret = None
  /\ page = BlankPage /\ cookies = FALSE
  /\ status = "running"
  /\ found = 0 /\ faults = 0 /\ kills = 0
  /\ cfg_end_year = end_year /\ prior = output
  /\ scanned = <<>> /\ log = <<>> /\ sunk = <<>> /\ policy_clears = <<>>
  /\ restarts = 0 /\ lost = {} /\ unsaved = {} /\ relooked = {}
  /\ held = FALSE
  /\ events = <<>>

\* Scraper.py:137 and 149: YY = year % 100; case_number = f'{YY:02}{N:06}'
Generate ==
  /\ pc = "generate"
  /\ YY' = year % 100
  /\ case_number' = FormatCase(YY', N)
  /\ pc' = "decode"
  /\ UNCHANGED <<flagVars, fileVars, years, year, N, record_missing_count,
                 cases_scraped_since_reset, continuing, last_case, search_result,
                 todo, case, stack, ret, driverVars, status, envVars, histVars>>

\* Scraper.py:118-123: the year and the sequence decoded from the string
Decode ==
  /\ pc = "decode"
  /\ pc' = "decoded"
  /\ IF IntOk(Prefix(case_number, 2)) /\ IntOk(Suffix(Stripped(case_number), 6))
       THEN /\ end_year' = LastYear(case_number)
            /\ last_case' = LastCase(case_number)
            /\ continuing' = TRUE
            /\ UNCHANGED status
       ELSE /\ Raise("error")
            /\ UNCHANGED <<end_year, last_case, continuing>>
  /\ UNCHANGED <<start_year, missing_thresh, connect_thresh, solve_captchas,
                 fileVars, years, year, YY, N, record_missing_count,
                 cases_scraped_since_reset, iterVars, stack, ret, driverVars,
                 envVars, histVars>>

CodecNext == Generate \/ Decode

SpecCodec == CodecInit /\ [][CodecNext]_vars

\* Scraper.py:163-166 and 287: a record of an associated case is persisted
\* under the text the listing shows, the number followed by a court type.
PersistMember ==
  /\ pc = "decode"
  /\ Len(case_number) = 8
  /\ \E j \in 1..Len(CourtTypes) : case_number' = case_number \o CourtTypes[j]
  /\ UNCHANGED <<flagVars, fileVars, pc, loopVars, search_result, todo, case,
                 stack, ret, driverVars, status, envVars, histVars>>

FallbackNext == Generate \/ PersistMember \/ Decode

\* The codec with persisted strings of both forms: the number alone, and the
\* number followed by four letters.
SpecFallback == CodecInit /\ [][FallbackNext]_vars

(***************************************************************************)
(* Properties.                                                             *)
(***************************************************************************)
\* The last lookup begin_scrape made for a candidate, and the records sunk
\* since that lookup returned.
LastLog == log[Len(log)]

IterRecs == SubSeq(sunk, LastLog.at + 1, Len(sunk))

Elems(q) == { q[k] : k \in 1..Len(q) }

NoRepeat(q) == \A j, k \in 1..Len(q) : q[j] = q[k] => j = k

\* The years and sequence numbers the properties are stated for.
SomeYY == 19..21

SomeSeq == 1..2

\* C1: when the prior output's last case number is YYNNNNNN, the first year
\* scanned is 2000+YY (whatever the configured end year), its first
\* candidate is YY with sequence NNNNNN+1, and every later year starts at
\* sequence 1.
C1_CheckpointResume ==
  \A yy \in SomeYY, n \in SomeSeq :
    (prior.exists /\ Len(prior.rows) > 0 /\ LastField(prior) = FormatCase(yy, n)) =>
      /\ Len(scanned) >= 1 => scanned[1] = [year |-> 2000 + yy, N |-> n + 1]
      /\ (pc = "after_search" /\ log = <<>>) => case_number = FormatCase(yy, n + 1)
      /\ Len(log) >= 1 => log[1].case = FormatCase(yy, n + 1)
      /\ \A k \in 2..Len(scanned) : scanned[k].N = 1

C1_Witness ==
  /\ prior.exists /\ Len(prior.rows) > 0 /\ LastField(prior) = FormatCase(21, 1)
  /\ Len(scanned) = 2 /\ scanned[1].N = 2 /\ scanned[2].N = 1
  /\ Len(log) >= 1 /\ log[1].case = FormatCase(21, 2)

\* C2 (as claimed): the session-reset policy clears the cookies at the 5th,
\* 10th, ... resolved case and at no other lookup: the k-th clear does not
\* come before 5k cases are resolved, and between candidates there has been
\* one clear for every five resolved cases.
C2_ResetCadence ==
  /\ \A k \in 1..Len(policy_clears) : policy_clears[k] >= 5 * k
  /\ (InBegin /\ pc = "while") => Len(policy_clears) = Len(sunk) \div 5

RECURSIVE NotFoundStreak(_)
\* The number of consecutive NotFound outcomes (empty set returned) that end
\* the first k lookups, within the year of the k-th.
NotFoundStreak(k) ==
  IF k = 0 THEN 0
  ELSE IF log[k].res = SetOf({}) /\ Prefix(log[k].case, 2) = Pad(YY, 2)
         THEN 1 + NotFoundStreak(k - 1)
         ELSE 0

\* C3 (as claimed): record_missing_count is the number of consecutive
\* NotFound outcomes of the year, so that a year is left exactly when
\* missing_thresh consecutive NotFound outcomes occurred, and a NotFound
\* outcome never has a record scraped.
C3_MissingStreak ==
  (InBegin /\ pc \in {"iter_end", "while"} /\ Len(log) > 0) =>
    /\ record_missing_count =
         (IF Prefix(LastLog.case, 2) = Pad(YY, 2) THEN NotFoundStreak(Len(log)) ELSE 0)
    /\ (pc = "iter_end" /\ LastLog.res = SetOf({})) => IterRecs = <<>>

\* The scenario of C4: a fresh run with endYear 2021 and missingThreshold 2
\* in which 21000001 is found as a single case and 21000002 and 21000003 are
\* not found.
C4_Scenario ==
  /\ ~prior.exists /\ cfg_end_year = 2021 /\ missing_thresh = 2
  /\ Len(log) >= 3
  /\ log[1].case = FormatCase(21, 1) /\ log[1].res = SetOf({FormatCase(21, 1)})
  /\ log[2].case = FormatCase(21, 2) /\ log[2].res = SetOf({})
  /\ log[3].case = FormatCase(21, 3) /\ log[3].res = SetOf({})

\* C4 (as claimed): with startYear 2020, the scenario ends with exactly one
\* record sunk (21000001) and the scan going on to year 2020 at sequence 1.
C4_Original ==
  (C4_Scenario /\ start_year = 2020 /\ status = "done") =>
    /\ sunk = <<FormatCase(21, 1)>>
    /\ Len(scanned) = 2 /\ scanned[2] = [year |-> 2020, N |-> 1]

\* C4 (amended): in the scenario year 2021 is left after the second
\* consecutive miss (no fourth candidate of 2021) with exactly one record
\* sunk (21000001); the scan then ends when startYear is 2020, which the
\* scan excludes, and goes on to year 2020 at sequence 1 when startYear is
\* 2019.
C4_EndToEnd ==
  C4_Scenario =>
    /\ Len(log) = 3 => sunk = <<FormatCase(21, 1)>>
    /\ \A k \in 4..Len(log) : Prefix(log[k].case, 2) # Pad(21, 2)
    /\ Len(scanned) >= 2 => (start_year < 2020 /\ scanned[2] = [year |-> 2020, N |-> 1])
    /\ status = "done" => Len(scanned) = (IF start_year = 2020 THEN 1 ELSE 2)

C4_Witness ==
  /\ C4_Scenario /\ start_year = 2020 /\ status = "done"
  /\ sunk = <<FormatCase(21, 1)>> /\ Len(scanned) = 1

\* C5: a fresh run scans the years endYear, endYear-1, ..., startYear+1 in
\* this order, each once, never startYear, and all of them when it finishes.
C5_YearOrder ==
  ~prior.exists =>
    /\ \A k \in 1..Len(scanned) :
         scanned[k].year = cfg_end_year - (k - 1) /\ scanned[k].year > start_year
    /\ status = "done" => Len(scanned) = cfg_end_year - start_year

C5_Witness ==
  /\ ~prior.exists /\ status = "done"
  /\ Len(scanned) = 2 /\ scanned[1].year = 2021 /\ scanned[2].year = 2020

\* C6 (as claimed): the restarts of one lookup (plain search page after
\* submission, or timeout) are bounded by connect_thresh.
C6_BoundedRestart == restarts <= connect_thresh

\* C7 (as claimed): a search_portal call that returns has produced an
\* outcome (never None), and when it ends on the page titled with the case
\* number the outcome is that single case.
C7_OutcomeTotality ==
  (InBegin /\ pc \in {"after_search", "after_member"}) =>
    /\ ~ret.none
    /\ page.kind = "Case" => ret = SetOf({page.case})

\* C8 (as claimed): after a search returned the listing of k > 1 matches,
\* every member is scraped from its own single-case page, reached by its own
\* search, and k records are sunk.
C8_FanOut ==
  /\ (pc = "for_case" /\ In("scrape_record", "summary") /\ Top.i = 0) =>
       page = CasePage(Top.arg)
  /\ (InBegin /\ pc = "iter_end" /\ Len(log) > 0 /\ ~LastLog.res.none /\
        LastLog.count > 1) =>
       Len(IterRecs) = LastLog.count

C10_Durability ==
  (kills > 0 /\ status = "done") => lost \subseteq relooked

\* C11: a load_page call (search_portal's included) makes at most
\* connect_thresh load attempts, a reload before each but the first, and
\* raises the fatal error only when the connect_thresh-th attempt has
\* failed.
C11_ExactAttempts ==
  (stack # <<>> /\ Top.fn = "load_page" /\ Top.pc = "wait") =>
    /\ LoadAttempts(Top) <= connect_thresh
    /\ status = "fatal" =>
         (LoadAttempts(Top) = connect_thresh /\ ~TitleContains(page, Top.exp))

C11_Witness ==
  /\ status = "fatal" /\ connect_thresh = 2
  /\ Len(stack) = 2 /\ stack[1].fn = "search_portal"
  /\ Top.fn = "load_page" /\ LoadAttempts(Top) = 2

\* C12: the run starts from the configured end year at sequence 1 exactly
\* when no prior output exists; with a prior output that cannot be decoded
\* it ends in begin_scrape's recovery, before any year is scanned and any
\* lookup made.
C12_RecoveryFailureModes ==
  /\ (~prior.exists /\ Len(scanned) >= 1) =>
       scanned[1] = [year |-> cfg_end_year, N |-> 1]
  /\ (prior.exists /\ Len(scanned) >= 1) =>
       (RecoverOk(prior) /\ scanned[1] # [year |-> cfg_end_year, N |-> 1])
  /\ (prior.exists /\ ~RecoverOk(prior)) =>
       /\ scanned = <<>> /\ log = <<>> /\ relooked = {} /\ stack = <<>>
       /\ status \in {"running", "error"}
       /\ status = "running" => pc = "start"

C12_Witness ==
  /\ prior \in BrokenOutputs /\ status = "error" /\ ledger_open
  /\ log = <<>> /\ scanned = <<>>

\* C13: for the years 2000..2099 and the sequences 0..999999, decoding the
\* generated case number gives back the year and the sequence.
C13_RoundTrip ==
  pc = "decoded" => (end_year = year /\ last_case = N /\ Len(case_number) = 8)

C13_Witness ==
  /\ pc = "decoded" /\ year = 2021 /\ N = 999999
  /\ end_year = 2021 /\ last_case = 999999

\* C14 (as claimed): a sequence number above 999999 is never formatted into
\* a candidate: no candidate longer than 8 characters is searched.
C14_SequenceOverflow ==
  (Running /\ pc = "after_search") => (N <= 999999 /\ Len(case_number) <= 8)

\* C15: the solving service is called once for a presented challenge: the
\* step that calls it either ends the run (exit) with nothing else changed
\* by the program, or submits the search; and nothing happens after exit.
C15_SolverNotRetried ==
  [][ /\ status # "exit"
      /\ In("search_portal", "solve") =>
           \/ /\ status' = "exit"
              /\ UNCHANGED <<stack, pc, page, cookies, output, sunk, log, case_number, N>>
           \/ /\ status' = "running"
              /\ stack'[Len(stack')].pc = "eval" ]_vars

C15_Witness ==
  /\ status = "exit" /\ stack # <<>>
  /\ Top.fn = "search_portal" /\ Top.pc = "solve"
  /\ page = SearchPage(TRUE) /\ Top.arg \notin Elems(sunk)

\* The outcome C16 gives a page for the case number c.
Classified(p, c) ==
  IF p.kind = "Results"
    THEN IF p.count > 1 THEN SetOf(p.rows) ELSE SetOf({})
    ELSE SetOf({c})

\* C16: a round of search_portal's evaluation that finds a results listing
\* or the page titled with the case number returns at once: the listed set
\* for a count above 1, the empty set for a count of 0 or 1, the case
\* number alone for the case's page.
C16_Classification ==
  [][ (In("search_portal", "eval") /\ Top.i < connect_thresh /\
        (page.kind = "Results" \/ TitleHasCase(page, Top.arg))) =>
        (stack' = Popped /\ ret' = Classified(page, Top.arg)) ]_vars

C16_Witness ==
  /\ InBegin /\ pc = "after_search"
  /\ page.kind = "Results" /\ page.count = 2 /\ Cardinality(page.rows) = 2
  /\ ret = SetOf(page.rows)

\* C17 (as claimed): once a ceiling of the manual wait has elapsed without
\* the case number in the title, the lookup is over: search_portal is not
\* waiting again.
C17_ManualCeiling ==
  In("search_portal", "manual") => Top.i = 0

\* C18 (as claimed): an input that is not interactable is recovered from in
\* select_case_input; no error comes out of it.
C18_UninteractableRecovery ==
  ~(status = "error" /\ stack # <<>> /\ Top.fn = "select_case_input")

\* C19 (as claimed): once the awaited condition has held on an attempt of a
\* bounded wait, the step raises no fatal error and performs no recovery
\* action.
C19_TransientInvisible ==
  held => (status # "fatal" /\ (stack # <<>> => Top.fn # "load_page"))

\* C20 (as claimed): a NotFound outcome leaves the lookups-since-reset
\* counter unchanged (here: at 0, after the first lookup of a run).
C20_CounterOnlyResolved ==
  (InBegin /\ pc = "iter_end" /\ Len(log) = 1 /\ LastLog.res = SetOf({})) =>
    (record_missing_count = 1 /\ cases_scraped_since_reset = 0)

\* C21: a search page without the captcha widget is a branch of search_portal
\* and not a failure: the search is submitted once, the solving service is
\* not called and nothing is raised.  With the widget and automated solving,
\* the call's events are the solver call, then the token injection, then one
\* submission (or the solver call alone, when it fails).
C21_AbsentChallengeBranch ==
  events # <<>> =>
    /\ events[1] = "absent" =>
         /\ events = <<"absent", "submit">>
         /\ In("search_portal", "eval")
         /\ status = "running"
    /\ (events[1] = "present" /\ solve_captchas) =>
         \/ events = <<"present">> /\ In("search_portal", "solve")
         \/ events = <<"present", "solve">> /\ status = "exit"
         \/ events = <<"present", "solve", "inject", "submit">> /\
              In("search_portal", "eval")

\* a search that was submitted from a page without the widget
C21_Witness ==
  /\ In("search_portal", "eval")
  /\ events = <<"absent", "submit">>
  /\ page.kind = "Results"

\* C22: a persisted case number of two year digits, six sequence digits and
\* four trailing letters is decoded by stripping the last 4 characters and
\* applying the normal rule: year 2000 + YY, sequence NNNNNN, next candidate
\* NNNNNN + 1.  From a numeric 8-character number nothing is stripped.
C22_FallbackParsing ==
  pc = "decoded" =>
    /\ status = "running"
    /\ Len(case_number) = 12 => Stripped(case_number) = FormatCase(YY, N)
    /\ Len(case_number) = 8 => Stripped(case_number) = case_number
    /\ end_year = 2000 + YY
    /\ last_case = N
    /\ FirstN(continuing, last_case) = N + 1

\* a number with a court type was decoded
C22_Witness ==
  /\ pc = "decoded"
  /\ Len(case_number) = 12
  /\ ~IsNumeric(case_number)
  /\ last_case = 999999

\* C23 (as claimed): scrape_record(c) starts only when the search_portal call
\* before it was for c and returned the single case c, with the browser on
\* the page of c: never on a results listing, and never after a lookup that
\* did not resolve to one case.
C23_ExtractOnResolved ==
  (In("scrape_record", "summary") /\ Top.i = 0 /\ ~held) =>
    /\ ret = SetOf({Top.arg})
    /\ page = CasePage(Top.arg)

\* C24 (as claimed): in one run of begin_scrape no portal id is passed to
\* scrape_record twice, also when an associated-case set holds a number that
\* the enumeration generates as a candidate of its own.
C24_NoDuplicate ==
  /\ NoRepeat(sunk)
  /\ (stack # <<>> /\ stack[1].fn = "scrape_record") =>
       stack[1].arg \notin Elems(sunk)

\* C25: every iteration of the per-year lookup loop starts with
\* cases_scraped_since_reset in 0..4; every year starts with it at 0; and it
\* is 0 right after every cookie clear of the session-reset policy.
C25_ResetCounterBound ==
  [][ /\ pc' = "while" => cases_scraped_since_reset' \in 0..4
      /\ year' # year => cases_scraped_since_reset' = 0
      /\ policy_clears' # policy_clears =>
           (cases_scraped_since_reset' = 0 /\ ~cookies') ]_vars

\* an iteration starts right after a cookie clear of the policy
C25_Witness ==
  /\ InBegin /\ pc = "while"
  /\ policy_clears # <<>>
  /\ ~cookies
  /\ cases_scraped_since_reset = 0

\* A case has been resolved by the search that just returned and its
\* extraction is due or in progress.
Extracting ==
  \/ stack # <<>> /\ stack[1].fn = "scrape_record"
  \/ InBegin /\ pc = "after_search" /\ Truthy(ret) /\ ~IsFanOut(ret)
  \/ InBegin /\ pc = "after_member" /\ Truthy(ret)

\* C26: from the return of a search_portal call with a found outcome for a
\* case until scrape_record for that case is over, no step deletes the
\* cookies; the cookie clear of the session-reset policy is taken only at
\* the end of an iteration, when the candidate and every member of its
\* associated-case set have been extracted.
C26_NoClearWhileExtracting ==
  [][ /\ Extracting => (cookies' = cookies /\ policy_clears' = policy_clears)
      /\ policy_clears' # policy_clears =>
           (InBegin /\ pc = "iter_end" /\ todo = {} /\ ~Extracting) ]_vars

\* the policy cleared the cookies after a fan-out whose members were all
\* extracted
C26_Witness ==
  /\ InBegin /\ pc = "while" /\ Len(log) > 0
  /\ policy_clears # <<>> /\ policy_clears[Len(policy_clears)] = Len(sunk)
  /\ Cardinality(LastLog.res.set) >= 2
  /\ Elems(IterRecs) = LastLog.res.set

\* C27 (as claimed): with captcha solving disabled and a captcha shown, once
\* the operator has solved it and submitted the search, search_portal leaves
\* its manual wait and returns, whatever page the portal answered with.
C27_ManualReachesOutcome ==
  (In("search_portal", "manual") /\ page.kind # "Search") ~>
    ~In("search_portal", "manual")

\* The sequence number and the year digits of a candidate's case number.
SeqOf(c) == IntOf(SubSeq(c, 3, Len(c)))

YearOf(c) == Prefix(c, 2)

\* The sequence number a year starts with: the checkpoint's + 1 in the first
\* year of a resumed run, 1 otherwise.
StartOf(first) ==
  IF first /\ prior.exists /\ RecoverOk(prior)
    THEN LastCase(LastField(prior)) + 1 ELSE 1

\* C28: the candidates the outer loop passes to search_portal in a year are
\* start, start + 1, start + 2, ... with none skipped or repeated, whatever
\* the outcomes, fan-outs and cookie resets in between; start is the
\* checkpoint's sequence + 1 in the first year and 1 in the others.
C28_GapFree ==
  /\ \A k \in 1..Len(log) :
       SeqOf(log[k].case) =
         IF k = 1 THEN StartOf(TRUE)
         ELSE IF YearOf(log[k].case) = YearOf(log[k - 1].case)
                THEN SeqOf(log[k - 1].case) + 1
                ELSE StartOf(FALSE)
  /\ (Running /\ pc = "after_search" /\ stack # <<>>) =>
       /\ case_number = FormatCase(YY, N)
       /\ N = IF log = <<>> THEN StartOf(TRUE)
              ELSE IF YearOf(case_number) = YearOf(LastLog.case)
                     THEN SeqOf(LastLog.case) + 1
                     ELSE StartOf(FALSE)

\* a resumed run's fourth candidate of the year, after a fan-out and a
\* cookie clear of the policy
C28_Witness ==
  /\ Running /\ pc = "after_search" /\ stack # <<>>
  /\ prior.exists /\ Len(log) = 3 /\ N = last_case + 4
  /\ policy_clears # <<>>
  /\ \E k \in 1..Len(log) : Cardinality(log[k].res.set) >= 2

\* begin_scrape has finished: every year of the range was scanned and the
\* docket ledger is closed.
Finished ==
  /\ status = "done" /\ ~ledger_open
  /\ Len(scanned) = Len(ScanYears(end_year, start_year))

\* What the claim's premise excludes: the checkpoint could not be decoded,
\* the portal or the driver misbehaved, the solving service failed, or a
\* search_portal call is held in the operator's wait.
PremiseBroken ==
  \/ status \in {"error", "exit"}
  \/ faults < MaxFaults
  \/ In("search_portal", "manual")

\* C29 (as claimed): when every search_portal call returns an outcome and
\* the years hold finitely many cases, begin_scrape eventually finishes
\* every year down to start_year + 1 and closes the docket ledger; and a
\* year is left only with missing_thresh consecutive misses counted.
C29_ScannerTermination ==
  /\ [][ (InBegin /\ pc = "while" /\ pc' = "for_year") =>
           record_missing_count >= missing_thresh ]_vars
  /\ <>(Finished \/ PremiseBroken)

\* C30: after a checkpoint with year Y is recovered, no year newer than Y is
\* scanned in the run, also when the configured end year is newer; and when
\* Y <= start_year no candidate is searched at all.
C30_ResumeBoundsYears ==
  (prior.exists /\ RecoverOk(prior)) =>
    LET Y == LastYear(LastField(prior)) IN
      /\ \A k \in 1..Len(scanned) : scanned[k].year <= Y
      /\ (pc # "start" /\ Running) => end_year = Y
      /\ Y <= start_year =>
           (scanned = <<>> /\ log = <<>> /\ stack = <<>> /\ case_number = <<>>)

\* a run resumed from a checkpoint older than the configured end year has
\* finished, having started its scan at the checkpoint's year
C30_Witness ==
  /\ prior.exists /\ RecoverOk(prior)
  /\ LastYear(LastField(prior)) < cfg_end_year
  /\ status = "done"
  /\ scanned # <<>> /\ scanned[1].year = LastYear(LastField(prior))

====
